---- MODULE Spec2Model ----
(***************************************************************************)
(* Verification model of web_novel_ebook_builder: the table-of-contents    *)
(* accumulator (MainPageData) of the kakuyomu and syosetu adapters, the    *)
(* validation and assembly in make_kakuyomu_novel / make_syosetu_novel,    *)
(* the chapter fetch orchestration (rayon pool / sequential), and the      *)
(* chapter-body content extraction with its ruby annotation walk.          *)
(***************************************************************************)
EXTENDS Integers, Sequences, FiniteSets, TLC

(***************************************************************************)
(* Bounds of the explored inputs.                                          *)
(***************************************************************************)
\* section headings plus chapter entries of one table of contents
MaxToc == 5
\* chapter entries of one table of contents
MaxChapters == 3
\* marker elements on a syosetu info page
MaxInfoMarkers == 2
\* child nodes of one ruby element
MaxRubyChildren == 4
\* paragraphs plus their child nodes of one chapter-body page
MaxPageNodes == 5
\* add_hook calls of one traverser
MaxHooks == 2
\* nodes below the root of the page one traverser walks
MaxNodes == 3
\* segments of the path of an address
MaxPath == 3

\* worker threads of the global rayon pool
NumThreads == 20

(***************************************************************************)
(* Option<T> is a sequence of length at most one.                          *)
(***************************************************************************)
None == << >>
Some(x) == << x >>
IsSome(o) == Len(o) = 1
IsNone(o) == Len(o) = 0
Unwrap(o) == o[1]

Last(s) == s[Len(s)]

RECURSIVE Flatten(_)
Flatten(ss) == IF ss = << >> THEN << >> ELSE Head(ss) \o Flatten(Tail(ss))

(***************************************************************************)
(* Input vocabulary of a table-of-contents page.                           *)
(***************************************************************************)
Titles == {"T"}
Authors == {"A"}
\* the texts of the section headings of a page, repeating in this order
SectionNames == <<"Part One", "Part Two">>
ChapterNames == {"ch"}
\* text of the kakuyomu status element; the strings of the source are written in
\* ASCII here: "rensaichuu" (ongoing), "kanketsuzumi" (completed),
\* "shousetsu-jouhou" (the info-link label), "k0".."k9" (the kanji numerals)
StatusTexts == {"rensaichuu", "kanketsuzumi", "other"}
\* date texts, as sequences of characters
Dates == {<<"2", "0", "/", "1">>}
EditDates == {<<"9">>}
\* info-link hrefs of syosetu; "bad uri" does not build into a Uri
InfoHrefs == {"/novelview/infotop", "bad uri"}
InfoLinkTexts == {"shousetsu-jouhou", "kansou"}

VARIABLES
    site,           \* adapter running make_novel: "kakuyomu" | "syosetu"
    pc,             \* position inside make_novel
    title,          \* MainPageData.title
    author,         \* MainPageData.author
    status,         \* MainPageData.status (syosetu: the status of the info page)
    info_path,      \* MainPageData.info_path (syosetu)
    sections,       \* MainPageData.sections : Seq of SectionInfo
    chapters,       \* MainPageData.chapters : Seq of ChapterInfo
    chapter_count,  \* MainPageData.chapter_count
    toc,            \* history: the section headings and chapter entries visited, in document order
    flushed,        \* history: traverse() returned and the final flush ran
    info_fetched,   \* history: the syosetu info page was fetched and traversed
    task,           \* order_num -> state of that descriptor's fetch
    completed,      \* history: order numbers in fetch-completion order
    result          \* what make_novel returns

VARIABLES
    csite,          \* adapter whose content extraction runs: "kakuyomu" | "syosetu"
    cpc,            \* position inside fetch_novel_content / fetch_page_content
    lines,          \* ContentData.lines
    rest,           \* element children of the paragraph just visited, still to be visited
    page,           \* history: the paragraphs of the body container visited, in document order
    emitted,        \* history: for each paragraph visited, the lines pushed while visiting it
    cresult         \* what the content fetch returns

VARIABLES
    rpc,            \* position inside the walk of one ruby element
    kids,           \* history: the children of the ruby element visited so far
    main,           \* base text collected and not yet emitted
    above,          \* gloss text collected and not yet emitted
    ruby_contents   \* Ruby spans emitted so far

VARIABLES
    tpc,            \* position inside an adapter step that builds and runs a TreeTraverser
    page_fetched,   \* history: crate::fetch_page was called for the page of the step
    asked,          \* history: the arguments of the add_hook calls made so far
    hooks,          \* TreeTraverser.hooks
    seen,           \* history: the nodes root_node.descendants() has yielded so far
    hook_idx,       \* index of the hook the inner loop evaluates next, 0 outside it
    evals,          \* history: the match_element calls <<node position, hook index>>
    calls,          \* history: the callback invocations <<node position, hook index>>
    data,           \* TreeTraverser.data (InfoPageData.status)
    tresult         \* what the step returns

VARIABLES
    dpc,            \* position inside fetch_novel
    novel_url,      \* the address given to fetch_novel
    novel_site,     \* the NovelSite is_a_novel returned
    dfetched,       \* history: a page fetch was issued
    dresult         \* what fetch_novel returns

traverserVars == <<tpc, page_fetched, asked, hooks, seen, hook_idx, evals, calls, data, tresult>>
dispatchVars == <<dpc, novel_url, novel_site, dfetched, dresult>>

contentVars == <<csite, cpc, lines, rest, page, emitted, cresult>>
rubyVars == <<rpc, kids, main, above, ruby_contents>>

mainVars == <<site, pc, title, author, status, info_path, sections, chapters,
              chapter_count, toc, flushed, info_fetched, task, completed, result>>

vars == <<mainVars, contentVars, rubyVars, traverserVars, dispatchVars>>

(***************************************************************************)
(* novel_utils::convert_num_string_to_ja: every ASCII digit becomes the    *)
(* kanji numeral, every other character is kept.                           *)
(***************************************************************************)
JaDigit(c) ==
    CASE c = "0" -> "k0" [] c = "1" -> "k1" [] c = "2" -> "k2" [] c = "3" -> "k3"
      [] c = "4" -> "k4" [] c = "5" -> "k5" [] c = "6" -> "k6" [] c = "7" -> "k7"
      [] c = "8" -> "k8" [] c = "9" -> "k9" [] OTHER -> c

convert_num_string_to_ja(num_string) ==
    [i \in 1..Len(num_string) |-> JaDigit(num_string[i])]

(***************************************************************************)
(* Elements of the table-of-contents page that some hook matches.          *)
(* A chapter entry carries what get_chapter reads: the name element, the   *)
(* date element, the href attribute and (syosetu) the edited-date element  *)
(* with its title attribute; each may be absent on a malformed page.  The  *)
(* href is unique per entry so that entries can be told apart.             *)
(***************************************************************************)
HrefOf(n) == <<"/episodes/", n>>

\* edit: None = no edited element, Some(None) = an edited element without title attribute
ChapterEntries(n) ==
    LET ok == { [kind |-> "chapter", name |-> Some(nm), date |-> Some(d),
                 href |-> Some(HrefOf(n)), edit |-> None] : nm \in ChapterNames, d \in Dates }
    IN  ok
        \cup { [e EXCEPT !.name = None] : e \in ok }
        \cup { [e EXCEPT !.date = None] : e \in ok }
        \cup { [e EXCEPT !.href = None] : e \in ok }
        \cup (IF site = "syosetu"
              THEN { [e EXCEPT !.edit = Some(Some(ed))] : e \in ok, ed \in EditDates }
                   \cup { [e EXCEPT !.edit = Some(None)] : e \in ok }
              ELSE {})

NumChapterEntries == Cardinality({i \in 1..Len(toc) : toc[i].kind = "chapter"})
NumSectionEntries == Cardinality({i \in 1..Len(toc) : toc[i].kind = "section"})

\* the n-th section heading of the page
SectionEntry(n) ==
    [kind |-> "section", name |-> SectionNames[((n - 1) % Len(SectionNames)) + 1]]

(***************************************************************************)
(* MainPageData                                                            *)
(***************************************************************************)
\* mutant: the pending chapters are copied into the last section, not moved
move_chapters_copy(secs, chs) ==
    IF secs # << >>
    THEN [sections |-> [secs EXCEPT ![Len(secs)].chapters = @ \o chs],
          chapters |-> chs]
    ELSE [sections |-> secs, chapters |-> chs]

\* move_chapters_to_section (kakuyomu) / append_chapters_to_section (syosetu):
\* the pending chapters are appended to the last section, when there is one.
move_chapters_to_section(secs, chs) ==
    IF secs # << >>
    THEN [sections |-> [secs EXCEPT ![Len(secs)].chapters = @ \o chs],
          chapters |-> << >>]
    ELSE [sections |-> secs, chapters |-> chs]

\* mutant: the counter is returned without being incremented
increment_forgotten(count) == count

\* increment_and_get_chapters / increment_and_get_chapter_count
increment_and_get_chapters(count) == count + 1

get_title ==
    /\ pc = "traverse"
    /\ \E t \in Titles : title' = Some(t)
    /\ UNCHANGED <<site, pc, author, status, info_path, sections, chapters,
                   chapter_count, toc, flushed, info_fetched, task, completed, result>>
    /\ UNCHANGED <<contentVars, rubyVars, traverserVars, dispatchVars>>

get_author ==
    /\ pc = "traverse"
    /\ \E a \in Authors : author' = Some(a)
    /\ UNCHANGED <<site, pc, title, status, info_path, sections, chapters,
                   chapter_count, toc, flushed, info_fetched, task, completed, result>>
    /\ UNCHANGED <<contentVars, rubyVars, traverserVars, dispatchVars>>

\* kakuyomu: the status text maps by exact match; any other text leaves the field alone
StatusOfText(status_text, old) ==
    CASE status_text = "rensaichuu" -> Some("Running")
      [] status_text = "kanketsuzumi" -> Some("Finished")
      [] OTHER -> old

get_status ==
    /\ pc = "traverse"
    /\ site = "kakuyomu"
    /\ \E status_text \in StatusTexts : status' = StatusOfText(status_text, status)
    /\ UNCHANGED <<site, pc, title, author, info_path, sections, chapters,
                   chapter_count, toc, flushed, info_fetched, task, completed, result>>
    /\ UNCHANGED <<contentVars, rubyVars, traverserVars, dispatchVars>>

\* syosetu: the link is taken only when its text is the info label and it has an href
InfoPathOf(text, href, old) ==
    IF text = "shousetsu-jouhou" /\ IsSome(href) THEN href ELSE old

get_info_path ==
    /\ pc = "traverse"
    /\ site = "syosetu"
    /\ \E text \in InfoLinkTexts, href \in {None} \cup {Some(h) : h \in InfoHrefs} :
          info_path' = InfoPathOf(text, href, info_path)
    /\ UNCHANGED <<site, pc, title, author, status, sections, chapters,
                   chapter_count, toc, flushed, info_fetched, task, completed, result>>
    /\ UNCHANGED <<contentVars, rubyVars, traverserVars, dispatchVars>>

\* mutant: the heading starts a section without moving the pending chapters first
SectionPushedNoMove(secs, chs, name) ==
    [sections |-> Append(secs, [name |-> name, chapters |-> << >>]),
     chapters |-> chs]

\* the accumulator after a section heading named name
SectionPushed(secs, chs, name) ==
    LET moved == move_chapters_to_section(secs, chs)
    IN  [sections |-> Append(moved.sections, [name |-> name, chapters |-> << >>]),
         chapters |-> moved.chapters]

get_section ==
    /\ pc = "traverse"
    /\ Len(toc) < MaxToc
    /\ LET e == SectionEntry(NumSectionEntries + 1)
           after == SectionPushed(sections, chapters, e.name)
       IN  /\ sections' = after.sections
           /\ chapters' = after.chapters
           /\ toc' = Append(toc, e)
    /\ UNCHANGED <<site, pc, title, author, status, info_path,
                   chapter_count, flushed, info_fetched, task, completed, result>>
    /\ UNCHANGED <<contentVars, rubyVars, traverserVars, dispatchVars>>

(***************************************************************************)
(* What make_novel returns: nothing yet, a Novel, a NovelError, or no      *)
(* return at all because a panic unwound through it.                       *)
(***************************************************************************)
NoResult == [kind |-> "none"]
Panicked == [kind |-> "panic"]
Err(e) == [kind |-> "err", err |-> e]
OkNovel(n) == [kind |-> "novel", novel |-> n]

\* kakuyomu get_chapter: the three unwraps come before any change of the accumulator
KakuyomuChapterPanics(e) == IsNone(e.name) \/ IsNone(e.date) \/ IsNone(e.href)

KakuyomuChapterInfo(e, order_num) ==
    [name |-> Unwrap(e.name),
     date |-> convert_num_string_to_ja(Unwrap(e.date)),
     order_num |-> order_num,
     uri_path |-> Unwrap(e.href)]

\* syosetu get_chapter: name node, date node, its text child, the edited element's
\* title attribute and the href of the name node are all unwrapped (the last one after
\* the counter was incremented, in an accumulator the panic then drops)
SyosetuChapterPanics(e) ==
    \/ IsNone(e.name) \/ IsNone(e.date) \/ IsNone(e.href)
    \/ (IsSome(e.edit) /\ IsNone(Unwrap(e.edit)))

SyosetuDate(e) ==
    IF IsSome(e.edit)
    THEN Unwrap(e.date) \o <<"(">> \o Unwrap(Unwrap(e.edit)) \o <<")">>
    ELSE Unwrap(e.date)

SyosetuChapterInfo(e, order_num) ==
    [name |-> Unwrap(e.name),
     date |-> SyosetuDate(e),
     order_num |-> order_num,
     uri_path |-> Unwrap(e.href)]

ChapterPanics(e) ==
    IF site = "kakuyomu" THEN KakuyomuChapterPanics(e) ELSE SyosetuChapterPanics(e)

ChapterInfoOf(e, order_num) ==
    IF site = "kakuyomu" THEN KakuyomuChapterInfo(e, order_num)
    ELSE SyosetuChapterInfo(e, order_num)

\* the chapter list after the hook pushed the descriptor of entry e
ChapterPushed(chs, e, order_num) == Append(chs, ChapterInfoOf(e, order_num))

get_chapter ==
    /\ pc = "traverse"
    /\ Len(toc) < MaxToc
    /\ NumChapterEntries < MaxChapters
    /\ \E e \in ChapterEntries(Len(toc) + 1) :
          /\ toc' = Append(toc, e)
          /\ IF ChapterPanics(e)
             THEN /\ pc' = "done"
                  /\ result' = Panicked
                  /\ UNCHANGED <<chapters, chapter_count>>
             ELSE LET order_num == increment_and_get_chapters(chapter_count)
                  IN  /\ chapter_count' = order_num
                      /\ chapters' = ChapterPushed(chapters, e, order_num)
                      /\ UNCHANGED <<pc, result>>
    /\ UNCHANGED <<site, title, author, status, info_path, sections, flushed, info_fetched,
                   task, completed>>
    /\ UNCHANGED <<contentVars, rubyVars, traverserVars, dispatchVars>>

(***************************************************************************)
(* make_kakuyomu_novel / make_syosetu_novel                                *)
(***************************************************************************)
\* crate::fetch_page of the table-of-contents page
fetch_toc_page ==
    /\ pc = "start"
    /\ \/ /\ pc' = "traverse"
          /\ UNCHANGED result
       \/ /\ pc' = "done"
          /\ result' = Err("IsahcError")
    /\ UNCHANGED <<site, title, author, status, info_path, sections, chapters,
                   chapter_count, toc, flushed, info_fetched, task, completed>>
    /\ UNCHANGED <<contentVars, rubyVars, traverserVars, dispatchVars>>

\* traverse() returns and the pending chapters are flushed into the last section
final_flush ==
    /\ pc = "traverse"
    /\ LET moved == move_chapters_to_section(sections, chapters)
       IN  /\ sections' = moved.sections
           /\ chapters' = moved.chapters
    /\ pc' = "header"
    /\ flushed' = TRUE
    /\ UNCHANGED <<site, title, author, status, info_path, chapter_count, toc,
                   info_fetched, task, completed, result>>
    /\ UNCHANGED <<contentVars, rubyVars, traverserVars, dispatchVars>>

\* mutant: the author is tested before the title
KakuyomuHeaderErrorAuthorFirst ==
    CASE IsNone(author) -> Some("ComponentMissing(Author)")
      [] IsNone(title)  -> Some("ComponentMissing(Title)")
      [] IsNone(status) -> Some("ComponentMissing(Status)")
      [] OTHER -> None

\* the first missing component, in the order the code tests them
KakuyomuHeaderError ==
    CASE IsNone(title)  -> Some("ComponentMissing(Title)")
      [] IsNone(author) -> Some("ComponentMissing(Author)")
      [] IsNone(status) -> Some("ComponentMissing(Status)")
      [] OTHER -> None

\* syosetu make_uri: a path that does not build into a Uri is an error
MakeUriFails(path) == path = "bad uri"

SyosetuHeaderError ==
    CASE IsNone(title)     -> Some("ComponentMissing(Title)")
      [] IsNone(author)    -> Some("ComponentMissing(Author)")
      [] IsNone(info_path) -> Some("ComponentMissing(InfoPath)")
      [] MakeUriFails(Unwrap(info_path)) -> Some("HttpError")
      [] OTHER -> None

HeaderError == IF site = "kakuyomu" THEN KakuyomuHeaderError ELSE SyosetuHeaderError

check_header ==
    /\ pc = "header"
    /\ IF IsSome(HeaderError)
       THEN /\ pc' = "done"
            /\ result' = Err(Unwrap(HeaderError))
       ELSE /\ pc' = (IF site = "kakuyomu" THEN "contents" ELSE "info")
            /\ UNCHANGED result
    /\ UNCHANGED <<site, title, author, status, info_path, sections, chapters,
                   chapter_count, toc, flushed, info_fetched, task, completed>>
    /\ UNCHANGED <<contentVars, rubyVars, traverserVars, dispatchVars>>

(***************************************************************************)
(* syosetu info_page::fetch_status_in_info: the info page is a sequence of *)
(* marker elements; get_finished / get_running overwrite the status, so    *)
(* the marker met last decides.                                            *)
(***************************************************************************)
InfoMarkers == {"noveltype", "noveltype_notend"}
InfoPages == UNION { [1..n -> InfoMarkers] : n \in 0..MaxInfoMarkers }

RECURSIVE InfoPageStatus(_, _)
InfoPageStatus(info_page, acc) ==
    IF info_page = << >> THEN acc
    ELSE InfoPageStatus(Tail(info_page),
                        IF Head(info_page) = "noveltype" THEN Some("Finished")
                        ELSE Some("Running"))

fetch_status_in_info ==
    /\ pc = "info"
    /\ \/ /\ pc' = "done"
          /\ result' = Err("IsahcError")
          /\ UNCHANGED <<status, info_fetched>>
       \/ \E info_page \in InfoPages :
            LET found == InfoPageStatus(info_page, None)
            IN  /\ info_fetched' = TRUE
                /\ IF IsNone(found)
                   THEN /\ pc' = "done"
                        /\ result' = Err("ComponentMissing(Status)")
                        /\ UNCHANGED status
                   ELSE /\ pc' = "contents"
                        /\ status' = found
                        /\ UNCHANGED result
    /\ UNCHANGED <<site, title, author, info_path, sections, chapters,
                   chapter_count, toc, flushed, task, completed>>
    /\ UNCHANGED <<contentVars, rubyVars, traverserVars, dispatchVars>>

\* the descriptors handed to the orchestrator, in list order
AllDescriptors == Flatten([i \in 1..Len(sections) |-> sections[i].chapters]) \o chapters

\* mutant: the contents are not validated
ContentsErrorUnchecked == None

\* mutant: the sections are not tested for emptiness
ContentsErrorNoSectionTest ==
    IF sections = << >> /\ chapters = << >>
    THEN Some("ComponentMissing(Chapter)")
    ELSE None

ContentsError ==
    IF sections = << >>
    THEN IF chapters = << >> THEN Some("ComponentMissing(Chapter)") ELSE None
    ELSE IF \E i \in 1..Len(sections) : sections[i].chapters = << >>
         THEN Some("ComponentMissing(ChapterUnderSection)")
         ELSE None

check_contents ==
    /\ pc = "contents"
    /\ IF IsSome(ContentsError)
       THEN /\ pc' = "done"
            /\ result' = Err(Unwrap(ContentsError))
            /\ UNCHANGED task
       ELSE /\ pc' = "fetching"
            /\ task' = [k \in {AllDescriptors[i].order_num : i \in 1..Len(AllDescriptors)}
                          |-> "todo"]
            /\ UNCHANGED result
    /\ UNCHANGED <<site, title, author, status, info_path, sections, chapters,
                   chapter_count, toc, flushed, info_fetched, completed>>
    /\ UNCHANGED <<contentVars, rubyVars, traverserVars, dispatchVars>>

(***************************************************************************)
(* Fetch orchestration.  A descriptor's fetch (ChapterInfo::fetch_chapter  *)
(* / ChapterInfo::fetch) starts, is in flight, and ends with the content   *)
(* lines, with an error of the page fetch or of the content extraction, or *)
(* with the panic of a malformed ruby group.                               *)
(***************************************************************************)
FetchErrors == {"IsahcError", "ComponentMissing(ChapterContent)"}
FetchOutcomes == {"ok", "panic"} \cup FetchErrors
\* the content lines of a page that was extracted
PageContent == <<"Line">>

Running == {k \in DOMAIN task : task[k] = "running"}
\* mutant: descriptors whose fetch failed are dispatched again
TodoOrFailed == {k \in DOMAIN task : task[k] \in {"todo"} \cup FetchErrors}

Todo == {k \in DOMAIN task : task[k] = "todo"}

\* mutant: any descriptor may start while a worker is idle, whatever the adapter
MayStartAnyIdle(k) == Cardinality(Running) < NumThreads

\* kakuyomu: into_par_iter hands every descriptor to the pool, any idle worker takes any
\* of them.  syosetu: into_iter takes the descriptors one at a time in list order.
MayStart(k) ==
    IF site = "kakuyomu"
    THEN Cardinality(Running) < NumThreads
    ELSE /\ Running = {}
         /\ \E i \in 1..Len(AllDescriptors) :
               /\ AllDescriptors[i].order_num = k
               /\ \A j \in 1..(i - 1) : task[AllDescriptors[j].order_num] \notin {"todo", "running"}

start_fetch ==
    /\ pc = "fetching"
    /\ \E k \in Todo :
          /\ MayStart(k)
          /\ task' = [task EXCEPT ![k] = "running"]
    /\ UNCHANGED <<site, pc, title, author, status, info_path, sections, chapters,
                   chapter_count, toc, flushed, info_fetched, completed, result>>
    /\ UNCHANGED <<contentVars, rubyVars, traverserVars, dispatchVars>>

\* a panic on the calling thread (syosetu) unwinds make_novel at once; a panic on a
\* pool worker (kakuyomu) is kept and resumed when the parallel iterator is joined
finish_fetch ==
    /\ pc = "fetching"
    /\ \E k \in Running, outcome \in FetchOutcomes :
          /\ task' = [task EXCEPT ![k] = outcome]
          /\ completed' = Append(completed, k)
          /\ IF site = "syosetu" /\ outcome = "panic"
             THEN pc' = "done" /\ result' = Panicked
             ELSE UNCHANGED <<pc, result>>
    /\ UNCHANGED <<site, title, author, status, info_path, sections, chapters,
                   chapter_count, toc, flushed, info_fetched>>
    /\ UNCHANGED <<contentVars, rubyVars, traverserVars, dispatchVars>>

\* ChapterInfo::fetch_chapter / ChapterInfo::fetch: the Chapter keeps the descriptor's fields
fetch_chapter(info) ==
    IF task[info.order_num] = "ok"
    THEN [kind |-> "ok",
          value |-> [name |-> info.name, date |-> info.date,
                     order_num |-> info.order_num, content |-> PageContent]]
    ELSE Err(task[info.order_num])

\* mutant: the results are gathered in the order the fetches completed
CollectByCompletion(infos) ==
    LET mine == {infos[i].order_num : i \in 1..Len(infos)}
        order == SelectSeq(completed, LAMBDA k : k \in mine)
        InfoOf(k) == CHOOSE info \in {infos[i] : i \in 1..Len(infos)} : info.order_num = k
    IN  [i \in 1..Len(order) |-> fetch_chapter(InfoOf(order[i]))]

\* collect(): the results stand at the positions of their descriptors
CollectResults(infos) == [i \in 1..Len(infos) |-> fetch_chapter(infos[i])]

\* the loop pushing every result, returning at the first Err
RECURSIVE PushAll(_, _)
PushAll(results, acc) ==
    IF results = << >> THEN [kind |-> "ok", value |-> acc]
    ELSE IF Head(results).kind = "err" THEN Head(results)
    ELSE PushAll(Tail(results), Append(acc, Head(results).value))

fetch_chapters(chapter_infos) == PushAll(CollectResults(chapter_infos), << >>)

\* SectionInfo::fetch_section / SectionInfo::fetch
fetch_section(section) ==
    LET fetched == fetch_chapters(section.chapters)
    IN  IF fetched.kind = "err" THEN fetched
        ELSE [kind |-> "ok", value |-> [name |-> section.name, chapters |-> fetched.value]]

fetch_sections(section_infos) ==
    PushAll([i \in 1..Len(section_infos) |-> fetch_section(section_infos[i])], << >>)

SourceUrl == IF site = "kakuyomu" THEN "https://kakuyomu.jp/works/1"
             ELSE "https://ncode.syosetu.com/n1/"

\* the tail of make_novel once every fetch has ended without a panic
MakeNovelResult ==
    LET contents == IF sections = << >>
                    THEN fetch_chapters(chapters)
                    ELSE fetch_sections(sections)
    IN  IF contents.kind = "err" THEN contents
        ELSE OkNovel([title |-> Unwrap(title), author |-> Unwrap(author),
                      status |-> Unwrap(status), source_url |-> SourceUrl,
                      contents |-> [kind |-> (IF sections = << >> THEN "Chapters" ELSE "Sections"),
                                    items |-> contents.value]])

AnyPanicked == \E k \in DOMAIN task : task[k] = "panic"

\* mutant: the results are gathered up to the first failure only
JoinedAtFirstFailure == Running = {} \/ \E k \in DOMAIN task : task[k] \in FetchErrors

\* collect() returns when no fetch it handed out is still in flight
Joined == Running = {}

\* the orchestrator returns: after every descriptor's fetch has ended; a worker's panic
\* is resumed on the caller once no fetch is in flight
return_novel ==
    /\ pc = "fetching"
    /\ Joined
    /\ IF AnyPanicked
       THEN result' = Panicked
       ELSE /\ Todo = {}
            /\ result' = MakeNovelResult
    /\ pc' = "done"
    /\ UNCHANGED <<site, title, author, status, info_path, sections, chapters,
                   chapter_count, toc, flushed, info_fetched, task, completed>>
    /\ UNCHANGED <<contentVars, rubyVars, traverserVars, dispatchVars>>

MainInit ==
    /\ site \in {"kakuyomu", "syosetu"}
    /\ pc = "start"
    /\ title = None
    /\ author = None
    /\ status = None
    /\ info_path = None
    /\ sections = << >>
    /\ chapters = << >>
    /\ chapter_count = 0
    /\ toc = << >>
    /\ flushed = FALSE
    /\ info_fetched = FALSE
    /\ task = << >>
    /\ completed = << >>
    /\ result = NoResult

\* the content extraction and the ruby walk at rest
ContentIdle ==
    /\ csite = "none"
    /\ cpc = "idle"
    /\ lines = << >>
    /\ rest = << >>
    /\ page = << >>
    /\ emitted = << >>
    /\ cresult = NoResult

RubyIdle ==
    /\ rpc = "idle"
    /\ kids = << >>
    /\ main = None
    /\ above = None
    /\ ruby_contents = << >>

\* no traverser step and no dispatch under way
TraverserIdle ==
    /\ tpc = "idle"
    /\ page_fetched = FALSE
    /\ asked = << >>
    /\ hooks = << >>
    /\ seen = << >>
    /\ hook_idx = 0
    /\ evals = << >>
    /\ calls = << >>
    /\ data = None
    /\ tresult = NoResult

DispatchIdle ==
    /\ dpc = "idle"
    /\ novel_url = None
    /\ novel_site = None
    /\ dfetched = FALSE
    /\ dresult = NoResult

OthersIdle == TraverserIdle /\ DispatchIdle

Init == MainInit /\ ContentIdle /\ RubyIdle /\ OthersIdle

Next ==
    \/ fetch_toc_page
    \/ get_title
    \/ get_author
    \/ get_status
    \/ get_info_path
    \/ get_section
    \/ get_chapter
    \/ final_flush
    \/ check_header
    \/ fetch_status_in_info
    \/ check_contents
    \/ start_fetch
    \/ finish_fetch
    \/ return_novel

Spec == Init /\ [][Next]_vars

(***************************************************************************)
(* The walk over the children of one ruby element: novel_utils::get_ruby   *)
(* (syosetu) and the same loop inlined in kakuyomu's get_content_line.     *)
(* A child is a text node, an rb, rt or rp element, or a comment; its text *)
(* is its position, so that bases and glosses can be told apart.           *)
(***************************************************************************)
RubyChildKinds == {"text", "rb", "rt", "rp", "comment"}
RubyChild(kind, n) == [kind |-> kind, text |-> <<kind, n>>]
Ruby(m, a) == [kind |-> "Ruby", main |-> m, above |-> a]
Span(t) == [kind |-> "Span", text |-> t]

\* what one child assigns: a text node sets main; rb sets main, rt sets above
AssignChild(st, child) ==
    CASE child.kind = "text" -> [st EXCEPT !.main = Some(child.text)]
      [] child.kind = "rb"   -> [st EXCEPT !.main = Some(child.text)]
      [] child.kind = "rt"   -> [st EXCEPT !.above = Some(child.text)]
      [] OTHER -> st

\* the test at the end of the loop body: a complete pair is emitted and reset
EmitPair(st) ==
    IF IsSome(st.main) /\ IsSome(st.above)
    THEN [main |-> None, above |-> None,
          out |-> Append(st.out, Ruby(Unwrap(st.main), Unwrap(st.above)))]
    ELSE st

\* one iteration of the loop: the text arm ends with continue and skips the test
RubyStep(st, child) ==
    IF child.kind = "text" THEN AssignChild(st, child)
    ELSE EmitPair(AssignChild(st, child))

\* after the loop: a base or a gloss left over is a panic
RubyPanics(st) == IsSome(st.main) \/ IsSome(st.above)

RubyStart == [main |-> None, above |-> None, out |-> << >>]

RECURSIVE RubyWalk(_, _)
RubyWalk(children, st) ==
    IF children = << >> THEN st ELSE RubyWalk(Tail(children), RubyStep(st, Head(children)))

ruby_child ==
    /\ rpc = "loop"
    /\ Len(kids) < MaxRubyChildren
    /\ \E kind \in RubyChildKinds :
          LET child == RubyChild(kind, Len(kids) + 1)
              st == RubyStep([main |-> main, above |-> above, out |-> ruby_contents], child)
          IN  /\ kids' = Append(kids, child)
              /\ main' = st.main
              /\ above' = st.above
              /\ ruby_contents' = st.out
    /\ UNCHANGED rpc
    /\ UNCHANGED <<mainVars, contentVars, traverserVars, dispatchVars>>

ruby_end ==
    /\ rpc = "loop"
    /\ rpc' = (IF RubyPanics([main |-> main, above |-> above, out |-> ruby_contents])
               THEN "panicked" ELSE "returned")
    /\ UNCHANGED <<kids, main, above, ruby_contents>>
    /\ UNCHANGED <<mainVars, contentVars, traverserVars, dispatchVars>>

MainIdle ==
    /\ site = "none"
    /\ pc = "idle"
    /\ title = None
    /\ author = None
    /\ status = None
    /\ info_path = None
    /\ sections = << >>
    /\ chapters = << >>
    /\ chapter_count = 0
    /\ toc = << >>
    /\ flushed = FALSE
    /\ info_fetched = FALSE
    /\ task = << >>
    /\ completed = << >>
    /\ result = NoResult

RubyInit ==
    /\ rpc = "loop"
    /\ kids = << >>
    /\ main = None
    /\ above = None
    /\ ruby_contents = << >>

InitRuby == MainIdle /\ ContentIdle /\ RubyInit /\ OthersIdle

NextRuby ==
    \/ ruby_child
    \/ ruby_end

SpecRuby == InitRuby /\ [][NextRuby]_vars


(***************************************************************************)
(* Content extraction of a chapter-body page: kakuyomu                     *)
(* content::fetch_novel_content and syosetu content::fetch_page_content.   *)
(* The page is the sequence of the p elements under the body container; a  *)
(* p has the class blank or not and a sequence of child nodes: a text      *)
(* node, a br, a ruby element with its own children, or another element.   *)
(***************************************************************************)
\* the ruby elements of a page: at most one text node and one rt, in either order
RubyGroups == { << >>, <<"text">>, <<"rt">>, <<"text", "rt">>, <<"rt", "text">> }
PChildren ==
    { [kind |-> k, kids |-> << >>] : k \in {"text", "br", "other"} }
    \cup { [kind |-> "ruby", kids |-> g] : g \in RubyGroups }

\* the paragraphs with at most n child nodes; the class blank means nothing to syosetu
Paragraphs(n) ==
    { [blank |-> b, children |-> c] :
        b \in (IF csite = "kakuyomu" THEN BOOLEAN ELSE {FALSE}),
        c \in UNION { [1..m -> PChildren] : m \in 0..n } }

PageNodes == Len(page) + Len(Flatten([i \in 1..Len(page) |-> page[i].children]))

RubyChildrenOf(child) == [n \in 1..Len(child.kids) |-> RubyChild(child.kids[n], n)]

\* novel_utils::get_ruby: the Ruby spans of an element child, none when it is no ruby
get_ruby(child) ==
    IF child.kind = "ruby" THEN RubyWalk(RubyChildrenOf(child), RubyStart).out ELSE << >>

GetRubyPanics(child) ==
    child.kind = "ruby" /\ RubyPanics(RubyWalk(RubyChildrenOf(child), RubyStart))

\* the Content spans of a paragraph: a Span per text node, the Ruby spans of a ruby element
RECURSIVE Contents(_, _)
Contents(children, n) ==
    IF n > Len(children) THEN << >>
    ELSE (IF children[n].kind = "text" THEN << Span(<<"text", n>>) >>
          ELSE get_ruby(children[n]))
         \o Contents(children, n + 1)

ParagraphPanics(par) == \E n \in 1..Len(par.children) : GetRubyPanics(par.children[n])

Line(contents) == [kind |-> "Line", contents |-> contents]
Blank == [kind |-> "Blank"]

\* kakuyomu: get_content_line fires on a p that is not p.blank and always pushes a Line
\* syosetu: get_line fires on every p and pushes a Line when it has contents
LinesOfParagraph(par) ==
    IF csite = "kakuyomu"
    THEN IF par.blank THEN << >> ELSE << Line(Contents(par.children, 1)) >>
    ELSE IF Contents(par.children, 1) # << >>
         THEN << Line(Contents(par.children, 1)) >>
         ELSE << >>

HookPanics(par) ==
    IF csite = "kakuyomu" THEN ~par.blank /\ ParagraphPanics(par) ELSE ParagraphPanics(par)

\* kakuyomu: get_blank_line fires on a br child of a p.blank
\* syosetu: get_blank fires on a br child of any p
LinesOfChild(par, child) ==
    IF child.kind = "br" /\ (csite = "syosetu" \/ par.blank) THEN << Blank >> ELSE << >>

fetch_content_page ==
    /\ cpc = "start"
    /\ \/ /\ cpc' = "traverse"
          /\ UNCHANGED cresult
       \/ /\ cpc' = "done"
          /\ cresult' = Err("IsahcError")
    /\ UNCHANGED <<csite, lines, rest, page, emitted>>
    /\ UNCHANGED <<mainVars, rubyVars, traverserVars, dispatchVars>>

\* the traversal reaches the next p element: the hooks matching a p run on it
visit_paragraph ==
    /\ cpc = "traverse"
    /\ rest = << >>
    /\ PageNodes < MaxPageNodes
    /\ \E par \in Paragraphs(MaxPageNodes - PageNodes - 1) :
          /\ page' = Append(page, par)
          /\ IF HookPanics(par)
             THEN /\ cpc' = "done"
                  /\ cresult' = Panicked
                  /\ UNCHANGED <<lines, rest, emitted>>
             ELSE /\ lines' = lines \o LinesOfParagraph(par)
                  /\ emitted' = Append(emitted, LinesOfParagraph(par))
                  /\ rest' = SelectSeq(par.children, LAMBDA c : c.kind # "text")
                  /\ UNCHANGED <<cpc, cresult>>
    /\ UNCHANGED csite
    /\ UNCHANGED <<mainVars, rubyVars, traverserVars, dispatchVars>>

\* the traversal reaches the next element child of the paragraph
visit_child ==
    /\ cpc = "traverse"
    /\ rest # << >>
    /\ LET pushed == LinesOfChild(Last(page), Head(rest))
       IN  /\ lines' = lines \o pushed
           /\ emitted' = [emitted EXCEPT ![Len(emitted)] = @ \o pushed]
    /\ rest' = Tail(rest)
    /\ UNCHANGED <<csite, cpc, page, cresult>>
    /\ UNCHANGED <<mainVars, rubyVars, traverserVars, dispatchVars>>

\* mutant: the lines are returned without the emptiness test
ContentResultUnchecked(content_lines) == [kind |-> "ok", value |-> content_lines]

\* the tail of the content fetch: no line at all is ComponentMissing(ChapterContent)
ContentResult(content_lines) ==
    IF content_lines = << >> THEN Err("ComponentMissing(ChapterContent)")
    ELSE [kind |-> "ok", value |-> content_lines]

\* traverse() returns
content_end ==
    /\ cpc = "traverse"
    /\ rest = << >>
    /\ cpc' = "done"
    /\ cresult' = ContentResult(lines)
    /\ UNCHANGED <<csite, lines, rest, page, emitted>>
    /\ UNCHANGED <<mainVars, rubyVars, traverserVars, dispatchVars>>

ContentInit ==
    /\ csite \in {"kakuyomu", "syosetu"}
    /\ cpc = "start"
    /\ lines = << >>
    /\ rest = << >>
    /\ page = << >>
    /\ emitted = << >>
    /\ cresult = NoResult

InitContent == MainIdle /\ ContentInit /\ RubyIdle /\ OthersIdle

NextContent ==
    \/ fetch_content_page
    \/ visit_paragraph
    \/ visit_child
    \/ content_end

SpecContent == InitContent /\ [][NextContent]_vars


(***************************************************************************)
(* An adapter step that builds and runs a TreeTraverser, as                *)
(* info_page::fetch_status_in_info does: the page is fetched, the          *)
(* traverser is built by a chain of add_hook calls and traverse() walks    *)
(* the page.  The arguments of the add_hook calls are inputs, so that the  *)
(* traverser is exercised beyond the one chain of fetch_status_in_info.    *)
(* A node of the page is a text node or an element with an id; "#[" and    *)
(* "p[" are selector texts that Selectors::compile rejects.                *)
(***************************************************************************)
FINISHED_SELECTOR == "#noveltype"
RUNNING_SELECTOR == "#noveltype_notend"

HookSelectors == {FINISHED_SELECTOR, RUNNING_SELECTOR, "#["}
HookNegSelectors == {None, Some(FINISHED_SELECTOR), Some("p[")}
HookCallbacks == {"get_finished", "get_running"}
HookArgs == [selectors : HookSelectors, negative_selectors : HookNegSelectors,
             traverse_hook : HookCallbacks]

ElementIds == {"noveltype", "noveltype_notend", "novel_ex"}
Nodes == {[kind |-> "text", id |-> ""]} \cup {[kind |-> "element", id |-> i] : i \in ElementIds}
IsElement(node) == node.kind = "element"

\* Selectors::compile
Compiles(selector) == selector \in {FINISHED_SELECTOR, RUNNING_SELECTOR}

\* Selectors::matches of an id selector
Matches(selector, element) ==
    CASE selector = FINISHED_SELECTOR -> element.id = "noveltype"
      [] selector = RUNNING_SELECTOR -> element.id = "noveltype_notend"
      [] OTHER -> FALSE

\* mutant: the negative selector is not compiled
CompileErrorSelectorOnly(args) ==
    IF ~Compiles(args.selectors) THEN Some(args.selectors) ELSE None

\* add_hook: the text of the first selector that does not compile, the selector before
\* the negative selector
CompileError(args) ==
    IF ~Compiles(args.selectors) THEN Some(args.selectors)
    ELSE IF IsSome(args.negative_selectors) /\ ~Compiles(Unwrap(args.negative_selectors))
         THEN args.negative_selectors
         ELSE None

CssSelectorCompilation(text) == <<"TraverseError(CssSelectorCompilation)", text>>

\* mutant: the negative selector is not consulted
HookFiresWithoutNeg(hook, element) == Matches(hook.selectors, element)

\* Hook::match_element: the callback runs unless the negative selector matches, and
\* only when the selector matches
HookFires(hook, element) ==
    IF IsSome(hook.negative_selectors) /\ Matches(Unwrap(hook.negative_selectors), element)
    THEN FALSE
    ELSE Matches(hook.selectors, element)

\* mutant: get_finished records the ongoing status
get_finished_as_running(old) == Some("Running")

\* InfoPageData::get_finished / get_running overwrite the status
get_finished(old) == Some("Finished")
get_running(old) == Some("Running")

CallHook(traverse_hook, old) ==
    IF traverse_hook = "get_finished" THEN get_finished(old) ELSE get_running(old)

\* mutant: the inner loop stops after the first hook
NextHookBreaks(idx, n) == 0

\* the inner loop over the hooks: the next index, 0 after the last hook
NextHook(idx, n) == IF idx < n THEN idx + 1 ELSE 0

\* the add_hook chain of fetch_status_in_info
InfoPageHooks ==
    << [selectors |-> FINISHED_SELECTOR, negative_selectors |-> None,
        traverse_hook |-> "get_finished"],
       [selectors |-> RUNNING_SELECTOR, negative_selectors |-> None,
        traverse_hook |-> "get_running"] >>

\* crate::fetch_page of the page of the step
fetch_info_page ==
    /\ tpc = "start"
    /\ page_fetched' = TRUE
    /\ \/ /\ tpc' = "build"
          /\ UNCHANGED tresult
       \/ /\ tpc' = "done"
          /\ tresult' = Err("IsahcError")
    /\ UNCHANGED <<asked, hooks, seen, hook_idx, evals, calls, data>>
    /\ UNCHANGED <<mainVars, contentVars, rubyVars, dispatchVars>>

add_hook ==
    /\ tpc = "build"
    /\ Len(asked) < MaxHooks
    /\ \E args \in HookArgs :
          /\ asked' = Append(asked, args)
          /\ IF IsSome(CompileError(args))
             THEN /\ tpc' = "done"
                  /\ tresult' = Err(CssSelectorCompilation(Unwrap(CompileError(args))))
                  /\ UNCHANGED hooks
             ELSE /\ hooks' = Append(hooks, args)
                  /\ UNCHANGED <<tpc, tresult>>
    /\ UNCHANGED <<page_fetched, seen, hook_idx, evals, calls, data>>
    /\ UNCHANGED <<mainVars, contentVars, rubyVars, dispatchVars>>

\* traverse() is called on the built traverser
traverse ==
    /\ tpc = "build"
    /\ tpc' = "walk"
    /\ UNCHANGED <<page_fetched, asked, hooks, seen, hook_idx, evals, calls, data, tresult>>
    /\ UNCHANGED <<mainVars, contentVars, rubyVars, dispatchVars>>

\* the outer loop: descendants() yields the next node in document order, Elements keeps
\* it when it is an element, and the inner loop starts on it
next_element ==
    /\ tpc = "walk"
    /\ hook_idx = 0
    /\ Len(seen) < MaxNodes
    /\ \E node \in Nodes :
          /\ seen' = Append(seen, node)
          /\ hook_idx' = (IF IsElement(node) /\ hooks # << >> THEN 1 ELSE 0)
    /\ UNCHANGED <<tpc, page_fetched, asked, hooks, evals, calls, data, tresult>>
    /\ UNCHANGED <<mainVars, contentVars, rubyVars, dispatchVars>>

\* one iteration of the inner loop
match_element ==
    /\ tpc = "walk"
    /\ hook_idx > 0
    /\ LET hook == hooks[hook_idx]
           element == Last(seen)
       IN  /\ evals' = Append(evals, <<Len(seen), hook_idx>>)
           /\ IF HookFires(hook, element)
              THEN /\ calls' = Append(calls, <<Len(seen), hook_idx>>)
                   /\ data' = CallHook(hook.traverse_hook, data)
              ELSE UNCHANGED <<calls, data>>
    /\ hook_idx' = NextHook(hook_idx, Len(hooks))
    /\ UNCHANGED <<tpc, page_fetched, asked, hooks, seen, tresult>>
    /\ UNCHANGED <<mainVars, contentVars, rubyVars, dispatchVars>>

\* the iterator is exhausted: traverse() returns the accumulator and the step its status
StatusResult(status_found) ==
    IF IsNone(status_found) THEN Err("ComponentMissing(Status)")
    ELSE [kind |-> "ok", value |-> Unwrap(status_found)]

traverse_end ==
    /\ tpc = "walk"
    /\ hook_idx = 0
    /\ tpc' = "done"
    /\ tresult' = StatusResult(data)
    /\ UNCHANGED <<page_fetched, asked, hooks, seen, hook_idx, evals, calls, data>>
    /\ UNCHANGED <<mainVars, contentVars, rubyVars, dispatchVars>>

TraverserInit ==
    /\ tpc = "start"
    /\ page_fetched = FALSE
    /\ asked = << >>
    /\ hooks = << >>
    /\ seen = << >>
    /\ hook_idx = 0
    /\ evals = << >>
    /\ calls = << >>
    /\ data = None
    /\ tresult = NoResult

InitTraverser == MainIdle /\ ContentIdle /\ RubyIdle /\ TraverserInit /\ DispatchIdle

NextTraverser ==
    \/ fetch_info_page
    \/ add_hook
    \/ traverse
    \/ next_element
    \/ match_element
    \/ traverse_end

SpecTraverser == InitTraverser /\ [][NextTraverser]_vars


(***************************************************************************)
(* main.rs fetch_novel: the address is parsed into a Uri, NovelSite picks  *)
(* the adapter whose recognizer accepts it, and that adapter's make_novel  *)
(* runs.  A Uri is its host, if any, and the segments of its path: the     *)
(* path <<"works", "1">> is "/works/1", the path <<"works">> is "/works".  *)
(***************************************************************************)
KAKUYOMU_HOST_NAME == "kakuyomu.jp"
SYOSETU_HOST_NAME == "ncode.syosetu.com"

Hosts == {None, Some(KAKUYOMU_HOST_NAME), Some(SYOSETU_HOST_NAME), Some("example.com")}
PathSegments == {"works", "1", ""}
Paths == UNION { [1..n -> PathSegments] : n \in 0..MaxPath }
\* an address that parses is its Uri; one that does not has nothing else
Addresses ==
    {[parses |-> FALSE, host |-> None, path |-> << >>]}
    \cup {[parses |-> TRUE, host |-> h, path |-> p] : h \in Hosts, p \in Paths}

\* uri.path().starts_with("/works/"): a first segment works followed by a slash
StartsWithWorks(path) == Len(path) >= 2 /\ path[1] = "works"

\* mutant: the path is not tested
is_kakuyomu_novel_host_only(uri) == IsSome(uri.host) /\ Unwrap(uri.host) = KAKUYOMU_HOST_NAME

is_kakuyomu_novel(uri) ==
    IF IsSome(uri.host)
    THEN IF Unwrap(uri.host) # KAKUYOMU_HOST_NAME THEN FALSE ELSE StartsWithWorks(uri.path)
    ELSE FALSE

is_syosetu_novel(uri) ==
    IF IsSome(uri.host) THEN Unwrap(uri.host) = SYOSETU_HOST_NAME ELSE FALSE

\* NovelSite::is_a_novel: the site of the first recognizer that accepts the address
is_a_novel(uri) ==
    IF is_kakuyomu_novel(uri) THEN Some("Kakuyomu")
    ELSE IF is_syosetu_novel(uri) THEN Some("Syosetu")
    ELSE None

\* novel_url.parse()?
parse_url ==
    /\ dpc = "start"
    /\ IF novel_url.parses
       THEN /\ dpc' = "parsed"
            /\ UNCHANGED dresult
       ELSE /\ dpc' = "done"
            /\ dresult' = Err("InvalidUri")
    /\ UNCHANGED <<novel_url, novel_site, dfetched>>
    /\ UNCHANGED <<mainVars, contentVars, rubyVars, traverserVars>>

\* NovelSite::is_a_novel(&uri).ok_or(NovelError::NotANovel)?
pick_site ==
    /\ dpc = "parsed"
    /\ novel_site' = is_a_novel(novel_url)
    /\ IF IsNone(is_a_novel(novel_url))
       THEN /\ dpc' = "done"
            /\ dresult' = Err("NotANovel")
       ELSE /\ dpc' = "make_novel"
            /\ UNCHANGED dresult
    /\ UNCHANGED <<novel_url, dfetched>>
    /\ UNCHANGED <<mainVars, contentVars, rubyVars, traverserVars>>

\* novel_site.make_novel(uri): the adapter's make_novel runs, fetching the
\* table-of-contents page first, and fetch_novel returns what it returns
make_novel ==
    /\ dpc = "make_novel"
    /\ dfetched' = TRUE
    /\ dpc' = "done"
    /\ \E made \in {"Novel", "NovelError"} :
          dresult' = [kind |-> "made", by |-> Unwrap(novel_site), value |-> made]
    /\ UNCHANGED <<novel_url, novel_site>>
    /\ UNCHANGED <<mainVars, contentVars, rubyVars, traverserVars>>

DispatchInit ==
    /\ dpc = "start"
    /\ novel_url \in Addresses
    /\ novel_site = None
    /\ dfetched = FALSE
    /\ dresult = NoResult

InitDispatch == MainIdle /\ ContentIdle /\ RubyIdle /\ TraverserIdle /\ DispatchInit

NextDispatch ==
    \/ parse_url
    \/ pick_site
    \/ make_novel

SpecDispatch == InitDispatch /\ [][NextDispatch]_vars


(***************************************************************************)
(* Properties of the table-of-contents accumulator and of the assembly.    *)
(***************************************************************************)
IsChapterEntry(e) == e.kind = "chapter"
IsSectionEntry(e) == e.kind = "section"
\* the chapter entries for which the hook built a descriptor, in document order
TocChapters == SelectSeq(toc, LAMBDA e : IsChapterEntry(e) /\ ~ChapterPanics(e))
TocSections == SelectSeq(toc, IsSectionEntry)
HeadingsBefore(i) == Cardinality({j \in 1..(i - 1) : IsSectionEntry(toc[j])})
ChaptersBefore(i) == Cardinality({j \in 1..(i - 1) : IsChapterEntry(toc[j])})
TocKinds == [i \in 1..Len(toc) |-> toc[i].kind]
OrderNums(chs) == [i \in 1..Len(chs) |-> chs[i].order_num]
StrictlyIncreasing(ns) == \A i \in 1..(Len(ns) - 1) : ns[i] < ns[i + 1]

\* C1: in every state of the traversal and after the final flush, the chapter lists of
\* the sections in section order followed by the pending top-level list hold exactly
\* the descriptors of the chapter entries seen so far, in table-of-contents order:
\* none lost, none duplicated.
C1_NoLossNoDuplication ==
    LET descs == AllDescriptors
        entries == TocChapters
    IN  /\ Len(descs) = Len(entries)
        /\ \A i \in 1..Len(descs) : descs[i].uri_path = Unwrap(entries[i].href)

\* C1 witness: after the final flush of a page with chapters before, between and after
\* two headings.
C1_Witness ==
    /\ flushed
    /\ pc = "header"
    /\ TocKinds = <<"chapter", "section", "chapter", "section", "chapter">>
    /\ Len(AllDescriptors) = 3

\* C2: after traversal and the final flush, every chapter entry that follows a heading
\* is in the section created by the nearest preceding heading, which carries that
\* heading's text; the page Part One, ch, ch, Part Two, ch yields
\* (Part One, [1, 2]), (Part Two, [3]).
C2_NearestPrecedingHeading ==
    flushed =>
        /\ LET headings == TocSections
           IN  \A i \in 1..Len(toc) :
              (IsChapterEntry(toc[i]) /\ HeadingsBefore(i) >= 1) =>
                  LET h == HeadingsBefore(i)
                  IN  /\ h <= Len(sections)
                      /\ sections[h].name = headings[h].name
                      /\ \E j \in 1..Len(sections[h].chapters) :
                            sections[h].chapters[j].uri_path = Unwrap(toc[i].href)
        /\ (TocKinds = <<"section", "chapter", "chapter", "section", "chapter">>) =>
              /\ Len(sections) = 2
              /\ chapters = << >>
              /\ sections[1].name = "Part One"
              /\ OrderNums(sections[1].chapters) = <<1, 2>>
              /\ sections[2].name = "Part Two"
              /\ OrderNums(sections[2].chapters) = <<3>>

\* C2 witness: the scenario page has been traversed and flushed.
C2_Witness ==
    /\ flushed
    /\ TocKinds = <<"section", "chapter", "chapter", "section", "chapter">>
    /\ Len(sections) = 2

\* the chapters of a returned Novel, in the order the Novel holds them
NovelChapters ==
    IF result.novel.contents.kind = "Chapters"
    THEN result.novel.contents.items
    ELSE Flatten([i \in 1..Len(result.novel.contents.items) |->
                     result.novel.contents.items[i].chapters])

\* C3: the descriptor of the n-th chapter entry of the table of contents has order
\* number n (1, 2, ..., N, no gap), and the chapters of a returned Novel carry the
\* order numbers 1..N of their descriptors, whatever the completion order was.
C3_OrderNumbers ==
    LET descs == AllDescriptors
        entries == TocChapters
    IN  /\ Len(descs) = Len(entries)
        /\ \A i \in 1..Len(descs) :
              \E n \in 1..Len(entries) :
                 /\ descs[i].uri_path = Unwrap(entries[n].href)
                 /\ descs[i].order_num = n
        /\ result.kind = "novel" =>
              LET made == NovelChapters
              IN  /\ Len(made) = Len(descs)
                  /\ \A i \in 1..Len(made) :
                        /\ made[i].order_num = descs[i].order_num
                        /\ made[i].name = descs[i].name
                  /\ OrderNums(made) = [i \in 1..Len(entries) |-> i]

\* C3 witness: a Novel of three chapters was returned although the fetches completed
\* in the reverse of the table-of-contents order.
C3_Witness ==
    /\ result.kind = "novel"
    /\ completed = <<3, 2, 1>>

\* C4: under the concurrent policy, whatever the interleaving, the returned sections
\* are in table-of-contents order and the chapters of every returned list are in
\* strictly increasing order-number order.
C4_ConcurrentOrder ==
    (site = "kakuyomu" /\ result.kind = "novel") =>
        IF result.novel.contents.kind = "Sections"
        THEN LET secs == result.novel.contents.items
             IN  /\ [i \in 1..Len(secs) |-> secs[i].name]
                      = [i \in 1..Len(TocSections) |-> TocSections[i].name]
                 /\ \A i \in 1..Len(secs) : StrictlyIncreasing(OrderNums(secs[i].chapters))
                 /\ StrictlyIncreasing(OrderNums(NovelChapters))
        ELSE StrictlyIncreasing(OrderNums(result.novel.contents.items))

\* C4 witness: kakuyomu returned two sections whose chapter fetches completed out of
\* table-of-contents order.
C4_Witness ==
    /\ site = "kakuyomu"
    /\ result.kind = "novel"
    /\ result.novel.contents.kind = "Sections"
    /\ Len(result.novel.contents.items) = 2
    /\ completed = <<3, 1, 2>>

\* C5 (as claimed): when the fetch or the content extraction of some descriptor failed,
\* make_novel returns an error and no Novel.
C5_FailureReturnsError ==
    (pc = "done" /\ \E k \in DOMAIN task : task[k] \in FetchErrors \cup {"panic"}) =>
        result.kind = "err"

HeaderPresent == IsSome(title) /\ IsSome(author) /\ IsSome(status)
HasEmptySection == \E i \in 1..Len(sections) : sections[i].chapters = << >>

\* C9: with title, author and status present, a table of contents without headings and
\* without chapter entries makes make_novel return ComponentMissing(Chapter), one with
\* a section left empty by the final flush ComponentMissing(ChapterUnderSection); no
\* fetch of a chapter is started and no Novel is returned.
C9_EmptyContentsErrors ==
    (flushed /\ HeaderPresent) =>
        /\ (pc = "done" /\ toc = << >>) => result = Err("ComponentMissing(Chapter)")
        /\ (pc = "done" /\ HasEmptySection) =>
               result = Err("ComponentMissing(ChapterUnderSection)")
        /\ (toc = << >> \/ HasEmptySection) => (pc # "fetching" /\ result.kind # "novel")

\* C9 witness: syosetu, status read from the info page, the second of two sections empty.
C9_Witness ==
    /\ site = "syosetu"
    /\ HeaderPresent
    /\ Len(sections) = 2
    /\ sections[1].chapters # << >>
    /\ sections[2].chapters = << >>
    /\ result = Err("ComponentMissing(ChapterUnderSection)")

\* C10: when make_novel has ended after the traversal, a title, author or status that was
\* not collected (syosetu: info link, then the status of the traversed info page) is
\* reported as ComponentMissing of that field, the first missing one in this order.
C10_MissingHeaderField ==
    (pc = "done" /\ flushed) =>
        /\ IsNone(title) => result = Err("ComponentMissing(Title)")
        /\ (IsSome(title) /\ IsNone(author)) => result = Err("ComponentMissing(Author)")
        /\ (site = "kakuyomu" /\ IsSome(title) /\ IsSome(author) /\ IsNone(status)) =>
               result = Err("ComponentMissing(Status)")
        /\ (site = "syosetu" /\ IsSome(title) /\ IsSome(author) /\ IsNone(info_path)) =>
               result = Err("ComponentMissing(InfoPath)")
        /\ (site = "syosetu" /\ info_fetched /\ IsNone(status)) =>
               result = Err("ComponentMissing(Status)")

\* C10 witness: kakuyomu, a table of contents with chapters, author and status missing.
C10_Witness ==
    /\ site = "kakuyomu"
    /\ pc = "done"
    /\ flushed
    /\ IsSome(title)
    /\ IsNone(author)
    /\ IsNone(status)
    /\ Len(chapters) > 0
    /\ result = Err("ComponentMissing(Author)")

(***************************************************************************)
(* Properties of the ruby walk.                                            *)
(***************************************************************************)
IsBase(child) == child.kind \in {"text", "rb"}
IsGloss(child) == child.kind = "rt"
Bases == SelectSeq(kids, IsBase)
Glosses == SelectSeq(kids, IsGloss)

\* C7 (as claimed): a ruby group with exactly one base (text node or rb) and exactly one
\* gloss (rt), in either order and with any ignored children, returns exactly one Ruby
\* span of that base and gloss and does not fail.
C7_OnePairOneRuby ==
    (rpc \in {"returned", "panicked"} /\ Len(Bases) = 1 /\ Len(Glosses) = 1) =>
        /\ rpc = "returned"
        /\ ruby_contents = << Ruby(Bases[1].text, Glosses[1].text) >>

(***************************************************************************)
(* Properties of the content extraction.                                   *)
(***************************************************************************)
\* a ruby element of the page whose walk ends with exactly one of base and gloss set
HalfRuby(child) ==
    /\ child.kind = "ruby"
    /\ LET st == RubyWalk(RubyChildrenOf(child), RubyStart)
       IN  IsSome(st.main) # IsSome(st.above)

\* the hook that walks ruby elements ran on paragraph i
Walked(i) == csite = "syosetu" \/ ~page[i].blank

\* C6 (as claimed): when a walked ruby group ends with exactly one of base and gloss set,
\* the content extraction of the chapter ends with a malformed-annotation error value
\* returned to the caller.
C6_MalformedAnnotationError ==
    (cpc = "done" /\ \E i \in 1..Len(page) :
                        Walked(i) /\ \E n \in 1..Len(page[i].children) :
                                        HalfRuby(page[i].children[n])) =>
        cresult.kind = "err"

\* the paragraphs whose element children have all been visited
Visited(i) == i < Len(page) \/ (i = Len(page) /\ rest = << >> /\ cresult # Panicked)

IsBlankParagraph(par) ==
    IF csite = "kakuyomu" THEN par.blank
    ELSE par.children = << [kind |-> "br", kids |-> << >>] >>

\* C8 (as claimed): every blank paragraph (kakuyomu: a p.blank; syosetu: a p whose only
\* child is a br) yields exactly one Blank line at its position.
C8_BlankParagraphOneBlank ==
    \A i \in 1..Len(emitted) :
        (Visited(i) /\ IsBlankParagraph(page[i])) => emitted[i] = << Blank >>

(***************************************************************************)
(* Properties of the traverser and of the steps that build one.            *)
(***************************************************************************)
ElementPositions == {p \in 1..Len(seen) : IsElement(seen[p])}
\* the ids of the marker elements of the page walked
MarkersSeen == {seen[p].id : p \in ElementPositions} \cap {"noveltype", "noveltype_notend"}
\* the page was fetched and walked to its end with the hooks of fetch_status_in_info
InfoPageWalked == tpc = "done" /\ asked = InfoPageHooks /\ hooks = InfoPageHooks

\* C11: fetch_status_in_info on an info page whose only marker elements are completed
\* markers (#noveltype) returns Finished, on one whose only marker elements are ongoing
\* markers (#noveltype_notend) returns Running, and on one with neither returns
\* ComponentMissing(Status).
C11_InfoPageStatus ==
    InfoPageWalked =>
        /\ (MarkersSeen = {"noveltype"}) => tresult = [kind |-> "ok", value |-> "Finished"]
        /\ (MarkersSeen = {"noveltype_notend"}) => tresult = [kind |-> "ok", value |-> "Running"]
        /\ (MarkersSeen = {}) => tresult = Err("ComponentMissing(Status)")

\* C11 witness: an info page with a completed marker among other nodes was walked.
C11_Witness ==
    /\ InfoPageWalked
    /\ MarkersSeen = {"noveltype"}
    /\ Len(seen) = 3
    /\ tresult = [kind |-> "ok", value |-> "Finished"]

CallSet == {calls[i] : i \in 1..Len(calls)}
EvalSet == {evals[i] : i \in 1..Len(evals)}
\* the inner loop has passed hook h on the node at position p
Evaluated(p, h) == p < Len(seen) \/ hook_idx = 0 \/ h < hook_idx

\* C12: for every element the walk has passed and every registered hook, the callback
\* was invoked on that element if and only if the hook's selector matches it and the
\* hook has no negative selector or its negative selector does not match it.
C12_HookFiresIff ==
    \A p \in ElementPositions, h \in 1..Len(hooks) :
        (<<p, h>> \in CallSet) <=>
            /\ Evaluated(p, h)
            /\ Matches(hooks[h].selectors, seen[p])
            /\ \/ IsNone(hooks[h].negative_selectors)
               \/ ~Matches(Unwrap(hooks[h].negative_selectors), seen[p])

\* C12 witness: on one element the first hook fired and the second, whose selector also
\* matches, was held back by its negative selector.
C12_Witness ==
    /\ tpc = "done"
    /\ Len(hooks) = 2
    /\ \E p \in ElementPositions :
          /\ <<p, 1>> \in CallSet
          /\ <<p, 2>> \notin CallSet
          /\ Matches(hooks[2].selectors, seen[p])
          /\ IsSome(hooks[2].negative_selectors)

LexLess(a, b) == a[1] < b[1] \/ (a[1] = b[1] /\ a[2] < b[2])
LexIncreasing(log) == \A i \in 1..(Len(log) - 1) : LexLess(log[i], log[i + 1])

\* C13: the hooks are evaluated on every element the iterator yielded, on no other node,
\* each exactly once, ordered by the element's document position and then by the hook's
\* registration index; the callback invocations keep that order; and traverse ends after
\* the last element, returning the accumulator.
C13_DocumentThenRegistrationOrder ==
    /\ LexIncreasing(evals)
    /\ LexIncreasing(calls)
    /\ CallSet \subseteq EvalSet
    /\ \A e \in EvalSet : e[1] \in ElementPositions /\ e[2] \in 1..Len(hooks)
    /\ \A p \in ElementPositions, h \in 1..Len(hooks) :
          Evaluated(p, h) => <<p, h>> \in EvalSet
    /\ (tpc = "done" /\ seen # << >>) =>
          /\ EvalSet = ElementPositions \X (1..Len(hooks))
          /\ tresult = StatusResult(data)

\* C13 witness: two hooks were called on each of two elements with a text node between.
C13_Witness ==
    /\ tpc = "done"
    /\ ElementPositions = {1, 3}
    /\ calls = << <<1, 1>>, <<1, 2>>, <<3, 1>>, <<3, 2>> >>

HasBadSelector(args) ==
    \/ ~Compiles(args.selectors)
    \/ (IsSome(args.negative_selectors) /\ ~Compiles(Unwrap(args.negative_selectors)))
OffendingText(args) ==
    IF ~Compiles(args.selectors) THEN args.selectors ELSE Unwrap(args.negative_selectors)

\* C14: when the selector or the negative selector of an add_hook call does not
\* compile, that call returns CssSelectorCompilation with the offending selector text,
\* the hook is not registered, the step ends there, and no node is walked and no
\* callback invoked.
C14_CompileErrorBeforeWalk ==
    \A i \in 1..Len(asked) :
        HasBadSelector(asked[i]) =>
            /\ i = Len(asked)
            /\ tpc = "done"
            /\ tresult = Err(CssSelectorCompilation(OffendingText(asked[i])))
            /\ hooks = SubSeq(asked, 1, i - 1)
            /\ seen = << >>
            /\ evals = << >>
            /\ calls = << >>

\* C14 witness: the second add_hook call had a negative selector that does not compile.
C14_Witness ==
    /\ Len(asked) = 2
    /\ Len(hooks) = 1
    /\ Compiles(asked[2].selectors)
    /\ tresult = Err(CssSelectorCompilation("p["))

ContentTraversed == cpc = "done" /\ cresult # Panicked /\ cresult # Err("IsahcError")

\* C16: for both adapters, when the traversal of a chapter-body page has ended with no
\* ContentLine pushed, the content fetch returns ComponentMissing(ChapterContent); a
\* content fetch that succeeds returns the lines pushed, at least one.
C16_EmptyContentIsMissing ==
    ContentTraversed =>
        /\ (Flatten(emitted) = << >>) => cresult = Err("ComponentMissing(ChapterContent)")
        /\ (cresult.kind = "ok") =>
              /\ cresult.value # << >>
              /\ cresult.value = Flatten(emitted)

\* C16 witness: a page of two paragraphs that yield no line was traversed.
C16_Witness ==
    /\ ContentTraversed
    /\ Len(page) = 2
    /\ Flatten(emitted) = << >>
    /\ cresult = Err("ComponentMissing(ChapterContent)")

(***************************************************************************)
(* Properties of fetch_novel.                                              *)
(***************************************************************************)
HostIs(name) == novel_url.host = Some(name)
\* the first seven characters of the path are "/works/"
PathUnderWorks == Len(novel_url.path) >= 2 /\ Head(novel_url.path) = "works"
AcceptedByKakuyomu == HostIs("kakuyomu.jp") /\ PathUnderWorks
AcceptedBySyosetu == HostIs("ncode.syosetu.com")

C18_NonEmptyBody ==
    (result.kind = "novel") =>
        LET body == result.novel.contents
        IN  /\ body.items # << >>
            /\ (body.kind = "Sections") =>
                  \A i \in 1..Len(body.items) : body.items[i].chapters # << >>

\* C18 witness: a Novel of two sections was returned.
C18_Witness ==
    /\ result.kind = "novel"
    /\ result.novel.contents.kind = "Sections"
    /\ Len(result.novel.contents.items) = 2
    /\ Len(NovelChapters) = 3

LacksField(e) == IsNone(e.name) \/ IsNone(e.date) \/ IsNone(e.href)

\* C19 (as claimed): make_novel ends with a Novel or with a NovelError value and in no
\* other way, and with a NovelError when a chapter entry of the table of contents lacks
\* its name element, its date element or its href attribute.
C19_NovelOrErrorValue ==
    (pc = "done") =>
        /\ result.kind \in {"novel", "err"}
        /\ (\E i \in 1..Len(toc) : IsChapterEntry(toc[i]) /\ LacksField(toc[i])) =>
              result.kind = "err"

\* the descriptors of the chapter entries before the first heading, by their hrefs
PreHeadingHrefs ==
    LET firstHeading == CHOOSE i \in 1..(Len(toc) + 1) :
                           /\ (i <= Len(toc) => IsSectionEntry(toc[i]))
                           /\ \A j \in 1..(i - 1) : ~IsSectionEntry(toc[j])
        before == SelectSeq(SubSeq(toc, 1, firstHeading - 1),
                            LAMBDA e : IsChapterEntry(e) /\ ~ChapterPanics(e))
    IN  [i \in 1..Len(before) |-> Unwrap(before[i].href)]
Hrefs(chs) == [i \in 1..Len(chs) |-> chs[i].uri_path]
IsPrefix(a, b) == Len(a) <= Len(b) /\ SubSeq(b, 1, Len(a)) = a
\* a page with chapter entries before its first heading and at least one heading
PreHeadingCase == NumSectionEntries >= 1 /\ PreHeadingHrefs # << >>

\* C20 (as claimed): the chapters before the first heading stay in the top-level list
\* until the traversal has ended and are only then appended to the last section.
C20_StayUntilEndThenLastSection ==
    PreHeadingCase =>
        IF flushed
        THEN \A i \in 1..Len(PreHeadingHrefs) :
                \E j \in 1..Len(Last(sections).chapters) :
                    Last(sections).chapters[j].uri_path = PreHeadingHrefs[i]
        ELSE IsPrefix(PreHeadingHrefs, Hrefs(chapters))

\* C20 (amended): the chapters before the first heading stay at the head of the
\* top-level list until the second heading is met or, when there is only one heading,
\* until the traversal has ended; they are then moved to the head of the first section.
C20_StayUntilSecondHeadingThenFirstSection ==
    LET pre == PreHeadingHrefs
    IN  (NumSectionEntries >= 1 /\ pre # << >>) =>
            IF NumSectionEntries >= 2 \/ flushed
            THEN /\ IsPrefix(pre, Hrefs(sections[1].chapters))
                 /\ \A i \in 1..Len(chapters) :
                       \A j \in 1..Len(pre) : chapters[i].uri_path # pre[j]
            ELSE /\ IsPrefix(pre, Hrefs(chapters))
                 /\ sections[1].chapters = << >>

\* C20 witness: a chapter before the first of two headings sits in the first section
\* while the traversal is still under way.
C20_Witness ==
    /\ TocKinds = <<"chapter", "section", "chapter", "section">>
    /\ ~flushed
    /\ Len(sections[1].chapters) = 2
    /\ chapters = << >>

(***************************************************************************)
(* Further properties of the content extraction.                           *)
(***************************************************************************)
\* C21 (as claimed): content extraction produces exactly one ContentLine per paragraph
\* element under the body container, the i-th line coming from the i-th paragraph.
C21_OneLinePerParagraph ==
    /\ \A i \in 1..Len(emitted) : Visited(i) => Len(emitted[i]) = 1
    /\ (cresult.kind = "ok") => Len(cresult.value) = Len(page)

(***************************************************************************)
(* Properties of the fetch orchestration.                                  *)
(***************************************************************************)
Started == {k \in DOMAIN task : task[k] # "todo"}
Ended == {k \in DOMAIN task : task[k] \notin {"todo", "running"}}

\* C22: under the sequential policy at most one page fetch is in flight, and the fetch of
\* a descriptor starts only after the fetches of all descriptors with smaller order
\* numbers have ended, so that the fetches complete in increasing order-number order.
C22_SequentialInOrder ==
    (site = "syosetu") =>
        /\ Cardinality(Running) <= 1
        /\ \A k \in Started : \A j \in DOMAIN task : (j < k) => j \in Ended
        /\ StrictlyIncreasing(completed)

\* C22 witness: the second fetch is in flight after the first one failed, the third waits.
C22_Witness ==
    /\ site = "syosetu"
    /\ DOMAIN task = {1, 2, 3}
    /\ task[1] = "IsahcError"
    /\ task[2] = "running"
    /\ task[3] = "todo"

\* the Chapters of a returned Novel are one per descriptor, with its name, date and
\* order number
ChaptersKeepDescriptors ==
    (result.kind = "novel") =>
        LET made == NovelChapters
            descs == AllDescriptors
        IN  /\ Len(made) = Len(descs)
            /\ \A i \in 1..Len(made) :
                  /\ made[i].name = descs[i].name
                  /\ made[i].date = descs[i].date
                  /\ made[i].order_num = descs[i].order_num
            /\ \A i, j \in 1..Len(made) : (i # j) => made[i].order_num # made[j].order_num

OncePerDescriptor(log) == \A i, j \in 1..Len(log) : (i # j) => log[i] # log[j]

\* C23: under the concurrent policy a descriptor whose fetch was started is never handed
\* out again and a fetch that ended is not repeated, so every page is fetched at most
\* once; the Chapters of a returned Novel are one per descriptor and keep its name, date
\* and order number.
C23_ConsumedOnce ==
    [][ (site = "kakuyomu") =>
           /\ \A k \in DOMAIN task :
                 /\ (task[k] # "todo") => task'[k] # "todo"
                 /\ (task[k] \notin {"todo", "running"}) => task'[k] = task[k]
           /\ OncePerDescriptor(completed')
           /\ ChaptersKeepDescriptors' ]_vars

\* C23 witness: kakuyomu returned a Novel of three chapters fetched out of order.
C23_Witness ==
    /\ site = "kakuyomu"
    /\ result.kind = "novel"
    /\ completed = <<2, 3, 1>>
    /\ Len(NovelChapters) = 3

\* C24: under the concurrent policy make_novel does not end while a fetch is in flight,
\* and an error of a fetch is returned only after the fetch of every descriptor has
\* ended: a failure cancels no sibling.
C24_NoSiblingCancelled ==
    (site = "kakuyomu" /\ pc = "done") =>
        /\ Running = {}
        /\ (result.kind = "err") => Ended = DOMAIN task

\* C24 witness: the first fetch to end failed, its two siblings ended after it, and the
\* error was returned.
C24_Witness ==
    /\ site = "kakuyomu"
    /\ pc = "done"
    /\ result = Err("IsahcError")
    /\ Len(completed) = 3
    /\ task[completed[1]] = "IsahcError"
    /\ task[completed[2]] = "ok"
    /\ task[completed[3]] = "ok"

Failed == {k \in DOMAIN task : task[k] \in FetchErrors \cup {"panic"}}
MinOf(S) == CHOOSE k \in S : \A j \in S : k <= j

\* C25 (as claimed): when several fetches failed, make_novel returns the error of the
\* failing descriptor with the smallest order number.
C25_FirstFailureSurfaced ==
    (pc = "done" /\ Cardinality(Failed) >= 2) => result = Err(task[MinOf(Failed)])

FetchIssued == Started # {}
ValidationErrors ==
    { Err(e) : e \in {"ComponentMissing(Title)", "ComponentMissing(Author)",
                      "ComponentMissing(Status)", "ComponentMissing(InfoPath)",
                      "ComponentMissing(Chapter)", "ComponentMissing(ChapterUnderSection)"} }

\* C26: a chapter-content fetch is issued only after the table of contents was traversed
\* and validated: title, author and status are present (syosetu: the info link, and the
\* info page was fetched before), the body is not empty and no section is empty; when
\* make_novel returns a validation error no chapter-content fetch was issued.
C26_NoFetchBeforeValidation ==
    /\ FetchIssued =>
          /\ flushed
          /\ IsSome(title) /\ IsSome(author) /\ IsSome(status)
          /\ (site = "syosetu") => (IsSome(info_path) /\ info_fetched)
          /\ AllDescriptors # << >>
          /\ ~HasEmptySection
    /\ (result \in ValidationErrors) => (~FetchIssued /\ completed = << >>)

\* C26 witness: syosetu, the info page had no status marker: the error was returned with
\* chapters listed and none fetched.
C26_Witness ==
    /\ site = "syosetu"
    /\ info_fetched
    /\ Len(AllDescriptors) = 3
    /\ result = Err("ComponentMissing(Status)")
    /\ ~FetchIssued

====
